---------------------------- MODULE Spec2Model ----------------------------
(***************************************************************************)
(* Model of tutorials/get-started-notebooks/pipeline.ipynb (the notebook's *)
(* code cells run in order, the two scripts it writes, data_prep.py and    *)
(* train.py, and the two-step pipeline job it submits) and of the settings *)
(* of cli/endpoints/batch/.../deployment-torch/deployment.yml.             *)
(*                                                                         *)
(* The workspace, the file mounts and the libraries are the environment:   *)
(* every call into them either returns or raises, chosen with \E.          *)
(***************************************************************************)
EXTENDS Integers, Sequences, FiniteSets, TLC

(***************************************************************************)
(* Bounds of the model.                                                    *)
(***************************************************************************)
\* most data rows of the input sheet
MaxRows == 3

\* executions of the compute cell in one session of the notebook
MaxRuns == 3

(***************************************************************************)
(* Python exceptions: the part of the class hierarchy the cells meet.      *)
(***************************************************************************)
Parent ==
    [ ResourceNotFoundError     |-> "HttpResponseError",
      ClientAuthenticationError |-> "HttpResponseError",
      HttpResponseError         |-> "AzureError",
      ServiceRequestError       |-> "AzureError",
      AzureError                |-> "Exception",
      Exception                 |-> "BaseException",
      JobException              |-> "AzureError",
      KeyboardInterrupt         |-> "BaseException",
      BaseException             |-> "BaseException" ]

RECURSIVE IsInstance(_, _)
IsInstance(exc, cls) ==
    IF exc = cls THEN TRUE
    ELSE IF exc = "BaseException" THEN FALSE
    ELSE IsInstance(Parent[exc], cls)

\* what a call to the workspace can raise: a failed request, or the interrupt
\* of the kernel while the cell waits for the answer
CallFailures ==
    {"ClientAuthenticationError", "ServiceRequestError", "KeyboardInterrupt"}

NoError == [cell |-> "", exc |-> "", from |-> ""]

(***************************************************************************)
(* The compute cell (cell "cpu_cluster").                                  *)
(***************************************************************************)
cpu_compute_target == "cpu-cluster"

\* AmlCompute(...) of the except branch
NewCluster ==
    [ name |-> cpu_compute_target, type |-> "amlcompute",
      size |-> "STANDARD_DS3_V2", min_instances |-> 0, max_instances |-> 4,
      idle_time_before_scale_down |-> 180, tier |-> "Dedicated" ]

\* clusters named cpu-cluster the workspace may hold before the notebook runs
ExistingClusters ==
    { NewCluster,
      [ name |-> cpu_compute_target, type |-> "amlcompute",
        size |-> "STANDARD_NC6", min_instances |-> 1, max_instances |-> 2,
        idle_time_before_scale_down |-> 120, tier |-> "LowPriority" ] }

\* "except Exception:" of the compute cell: the exceptions the handler takes
CaughtOnlyNotFound(exc) == IsInstance(exc, "ResourceNotFoundError")
Caught(exc) == IsInstance(exc, "Exception")

\* the reuse branch that would also send the cluster definition
ReuseRequestsUpdate == <<"compute.begin_create_or_update">>
\* calls of the try branch after a successful get: a print only
ReuseRequests == <<>>

(***************************************************************************)
(* The notebook's code cells in document order; call is the call to the    *)
(* workspace the cell makes ("" when it makes none).                       *)
(***************************************************************************)
CellsComputeFirst ==
    << [name |-> "ml_client",           call |-> ""],
       [name |-> "credit_data",         call |-> ""],
       [name |-> "cpu_cluster",         call |-> "compute"],
       [name |-> "update-credit_data",  call |-> "data.create_or_update"],
       [name |-> "dependencies_dir",    call |-> ""],
       [name |-> "conda.yml",           call |-> ""],
       [name |-> "custom_env_name",     call |-> "environments.create_or_update"],
       [name |-> "data_prep_src_dir",   call |-> ""],
       [name |-> "def-main",            call |-> ""],
       [name |-> "data_prep_component", call |-> ""],
       [name |-> "register-data_prep",  call |-> "create_or_update(data_prep_component)"],
       [name |-> "train_src_dir",       call |-> ""],
       [name |-> "train.py",            call |-> ""],
       [name |-> "train.yml",           call |-> ""],
       [name |-> "train_component",     call |-> "create_or_update(train_component)"],
       [name |-> "pipeline",            call |-> ""],
       [name |-> "registered_model_name", call |-> ""],
       [name |-> "returned_job",        call |-> "jobs"] >>

\* the cells with the environment registered after the component naming it
CellsEnvironmentLate ==
    << [name |-> "ml_client",           call |-> ""],
       [name |-> "credit_data",         call |-> ""],
       [name |-> "update-credit_data",  call |-> "data.create_or_update"],
       [name |-> "cpu_cluster",         call |-> "compute"],
       [name |-> "dependencies_dir",    call |-> ""],
       [name |-> "conda.yml",           call |-> ""],
       [name |-> "data_prep_src_dir",   call |-> ""],
       [name |-> "def-main",            call |-> ""],
       [name |-> "data_prep_component", call |-> ""],
       [name |-> "register-data_prep",  call |-> "create_or_update(data_prep_component)"],
       [name |-> "custom_env_name",     call |-> "environments.create_or_update"],
       [name |-> "train_src_dir",       call |-> ""],
       [name |-> "train.py",            call |-> ""],
       [name |-> "train.yml",           call |-> ""],
       [name |-> "train_component",     call |-> "create_or_update(train_component)"],
       [name |-> "pipeline",            call |-> ""],
       [name |-> "registered_model_name", call |-> ""],
       [name |-> "returned_job",        call |-> "jobs"] >>

Cells ==
    << [name |-> "ml_client",           call |-> ""],
       [name |-> "credit_data",         call |-> ""],
       [name |-> "update-credit_data",  call |-> "data.create_or_update"],
       [name |-> "cpu_cluster",         call |-> "compute"],
       [name |-> "dependencies_dir",    call |-> ""],
       [name |-> "conda.yml",           call |-> ""],
       [name |-> "custom_env_name",     call |-> "environments.create_or_update"],
       [name |-> "data_prep_src_dir",   call |-> ""],
       [name |-> "def-main",            call |-> ""],
       [name |-> "data_prep_component", call |-> ""],
       [name |-> "register-data_prep",  call |-> "create_or_update(data_prep_component)"],
       [name |-> "train_src_dir",       call |-> ""],
       [name |-> "train.py",            call |-> ""],
       [name |-> "train.yml",           call |-> ""],
       [name |-> "train_component",     call |-> "create_or_update(train_component)"],
       [name |-> "pipeline",            call |-> ""],
       [name |-> "registered_model_name", call |-> ""],
       [name |-> "returned_job",        call |-> "jobs"] >>

(***************************************************************************)
(* The pipeline job: credit_defaults_pipeline and its instantiation.       *)
(***************************************************************************)
Steps == {"data_prep_job", "train_job"}

\* a pipeline input, or the named output of a step
PipelineInput(n) == [step |-> "", name |-> n]
StepOutput(s, n) == [step |-> s, name |-> n]

\* train_component(...) bound to nothing the data preparation produces
train_job_inputs_unbound ==
    [ train_data            |-> PipelineInput("pipeline_job_data_input"),
      test_data             |-> PipelineInput("pipeline_job_data_input"),
      learning_rate         |-> PipelineInput("pipeline_job_learning_rate"),
      registered_model_name |-> PipelineInput("pipeline_job_registered_model_name") ]

\* data_prep_component(...) and train_component(...) of credit_defaults_pipeline
data_prep_job_inputs ==
    [ data             |-> PipelineInput("pipeline_job_data_input"),
      test_train_ratio |-> PipelineInput("pipeline_job_test_train_ratio") ]

train_job_inputs ==
    [ train_data            |-> StepOutput("data_prep_job", "train_data"),
      test_data             |-> StepOutput("data_prep_job", "test_data"),
      learning_rate         |-> PipelineInput("pipeline_job_learning_rate"),
      registered_model_name |-> PipelineInput("pipeline_job_registered_model_name") ]

Bindings(s) ==
    IF s = "data_prep_job"
    THEN { data_prep_job_inputs[k] : k \in DOMAIN data_prep_job_inputs }
    ELSE { train_job_inputs[k] : k \in DOMAIN train_job_inputs }

\* the split rates the pipeline can be instantiated with ("split rate of
\* choice"; the notebook's own is 0.25): quarters, which floats hold exactly
Ratios == { [num |-> k, den |-> 4] : k \in 0..4 }

(***************************************************************************)
(* Data: the sheet, data frames and CSV files.                             *)
(***************************************************************************)
\* the two rows of the sheet above its data rows (a title row, the header)
NoDataRow == [id |-> 0, y |-> 0]

\* the sheets of the data asset: two heading rows, then rows ID, ..., label
Sheets ==
    UNION { { <<NoDataRow, NoDataRow>> \o [i \in 1..n |-> [id |-> i, y |-> f[i]]] :
                f \in [1..n -> {0, 1}] } : n \in 0..MaxRows }

\* pd.read_excel(path, header=1, index_col=0): row 1 is the header, the rows
\* above it are dropped, column 0 (ID) becomes the index
read_excel(sheet) == SubSeq(sheet, 3, Len(sheet))

\* df.to_csv(path, index=False): the rows without the index
to_csv(df) == [i \in 1..Len(df) |-> df[i].y]

\* ceil(num * n / den) for n >= 0
CeilMul(r, n) == (r.num * n + r.den - 1) \div r.den

\* sklearn's sizes of the two parts for a float test_size and no train_size:
\* n_test = ceil(test_size * n), n_train = n - n_test
n_test(r, n) == CeilMul(r, n)
n_train(r, n) == n - n_test(r, n)

\* train_test_split raises ValueError: test_size outside (0, 1), or a train
\* part that would be empty
SplitRaises(r, n) ==
    \/ r.num <= 0
    \/ r.num >= r.den
    \/ n_train(r, n) <= 0

Perms(n) == { p \in [1..n -> 1..n] : \A i, j \in 1..n : p[i] = p[j] => i = j }

\* the two parts for the permutation perm of the rows: the first n_test
\* permuted rows are the test part, the next n_train the train part
TestPart(df, r, perm) ==
    [i \in 1..n_test(r, Len(df)) |-> df[perm[i]]]
TrainPartOverlapping(df, r, perm) ==
    [i \in 1..n_train(r, Len(df)) |-> df[perm[i]]]
TrainPart(df, r, perm) ==
    [i \in 1..n_train(r, Len(df)) |-> df[perm[n_test(r, Len(df)) + i]]]

(***************************************************************************)
(* Folders and files.                                                      *)
(***************************************************************************)
Folders == {"train_data", "test_data", "model"}

\* os.path.join(folder, name)
Join(folder, name) == <<folder, name>>

\* select_first_file(path): os.listdir gives the entries in no fixed order,
\* files[0] is any of them; no entry, IndexError
select_first_file(entries) == { e.name : e \in entries }

(***************************************************************************)
(* deployment.yml: the settings of the batch deployment mnist-torch-dpl.   *)
(* The batch service that reads them is no part of the repository, and no  *)
(* action here stands for it.                                              *)
(***************************************************************************)
mnist_torch_dpl ==
    [ name |-> "mnist-torch-dpl", endpoint_name |-> "mnist-batch",
      instance_count |-> 1, max_concurrency_per_instance |-> 2,
      mini_batch_size |-> 10, output_action |-> "append_row",
      output_file_name |-> "predictions.csv",
      max_retries |-> 3, timeout |-> 30, error_threshold |-> -1 ]

VARIABLES
    nbpc,        \* index in Cells of the next cell to run
    nbState,     \* "running" | "streaming" | "done" | "error"
    calls,       \* the calls to the workspace made so far, in order
    cellError,   \* the exception that left a cell, NoError when none did
    branch,      \* branch of the compute cell: "none" | "reuse" | "create"
    cpu_cluster, \* the notebook variable: "unset" | "entity" | "poller"
    got,         \* what compute.get did: "" (not called) | "ok" | the exception
    runs,        \* how many times the compute cell was executed
    sent,        \* the cluster definitions passed to begin_create_or_update
    ratio,       \* pipeline_job_test_train_ratio of the instantiation
    cluster,     \* the workspace's cpu-cluster: <<>> or <<its configuration>>
    cluster0,    \* the same before the notebook ran
    pending,     \* creations begun and not finished: configurations
    job,         \* "NotSubmitted" | "Running" | "Completed" | "Failed"
    stepStatus,  \* of each step: "NotStarted" | "Running" | "Completed" | "Failed"
    __name__,    \* of each script: "__main__" when run as a program
    pc,          \* of each step's script: the statement it is at
    trace,       \* of each step's script: the operations attempted, in order
    args_data,   \* what --data is mounted as: "uri_file" | "uri_folder"
    sheet,       \* the rows of the data asset's sheet
    opened,      \* the paths the scripts opened for reading, in order
    credit_df, credit_train_df, credit_test_df,   \* data_prep.py's frames
    fs,          \* of each folder: its files, [name, rows]
    y_train, y_test, clf,   \* train.py: the label columns, the fitted model
    registered   \* versions of registered_model_name registered by the run

nbVars == <<nbpc, nbState, calls, cellError, branch, cpu_cluster, got, runs, sent, ratio>>
wsVars == <<cluster, cluster0, pending>>
jobVars == <<job, stepStatus>>
dpVars == <<args_data, sheet, credit_df, credit_train_df, credit_test_df>>
trVars == <<y_train, y_test, clf, registered>>
runVars == <<__name__, pc, trace, opened, fs, dpVars, trVars>>
vars == <<nbVars, wsVars, jobVars, runVars>>

NextCell == IF nbpc <= Len(Cells) THEN Cells[nbpc] ELSE [name |-> "", call |-> ""]

Range(f) == { f[i] : i \in DOMAIN f }

NbInit ==
    /\ nbpc = 1
    /\ nbState = "running"
    /\ calls = <<>>
    /\ cellError = NoError
    /\ branch = "none"
    /\ cpu_cluster = "unset"
    /\ got = ""
    /\ runs = 0
    /\ sent = <<>>
    /\ ratio = [num |-> 1, den |-> 4]

WsInit ==
    /\ cluster \in {<<>>} \cup { <<c>> : c \in ExistingClusters }
    /\ cluster0 = cluster
    /\ pending = <<>>

RunInit ==
    /\ job = "NotSubmitted"
    /\ stepStatus = [s \in Steps |-> "NotStarted"]
    /\ __name__ = [s \in Steps |-> "__main__"]
    /\ pc = [s \in Steps |-> "NotStarted"]
    /\ trace = [s \in Steps |-> <<>>]
    /\ args_data = "uri_file"
    /\ sheet = <<NoDataRow, NoDataRow>>
    /\ opened = <<>>
    /\ credit_df = <<>>
    /\ credit_train_df = <<>>
    /\ credit_test_df = <<>>
    /\ fs = [d \in Folders |-> {}]
    /\ y_train = <<>>
    /\ y_test = <<>>
    /\ clf = [fitted |-> FALSE, on |-> <<>>]
    /\ registered = 0

(***************************************************************************)
(* The notebook's cells.                                                   *)
(***************************************************************************)
Advance ==
    /\ nbpc' = nbpc + 1
    /\ nbState' = nbState

\* an exception leaves the cell: the run of the notebook stops there
Raise(exc, from) ==
    /\ cellError' = [cell |-> NextCell.name, exc |-> exc, from |-> from]
    /\ nbState' = "error"
    /\ nbpc' = nbpc

\* a cell that calls nothing in the workspace: constructors, local files
LocalCell ==
    /\ nbState = "running"
    /\ nbpc <= Len(Cells)
    /\ NextCell.call = ""
    /\ NextCell.name # "registered_model_name"
    /\ Advance
    /\ UNCHANGED <<calls, cellError, branch, cpu_cluster, got, runs, sent, ratio>>
    /\ UNCHANGED <<wsVars, jobVars, runVars>>

\* pipeline = credit_defaults_pipeline(...): the split rate is chosen here
InstantiateCell ==
    /\ nbState = "running"
    /\ nbpc <= Len(Cells)
    /\ NextCell.name = "registered_model_name"
    /\ ratio' \in Ratios
    /\ Advance
    /\ UNCHANGED <<calls, cellError, branch, cpu_cluster, got, runs, sent>>
    /\ UNCHANGED <<wsVars, jobVars, runVars>>

\* a cell with one call to the workspace, which returns or raises
RemoteCell ==
    /\ nbState = "running"
    /\ nbpc <= Len(Cells)
    /\ NextCell.call \notin {"", "compute", "jobs"}
    /\ calls' = Append(calls, NextCell.call)
    /\ \/ Advance /\ UNCHANGED cellError
       \/ \E exc \in CallFailures : Raise(exc, NextCell.call)
    /\ UNCHANGED <<branch, cpu_cluster, got, runs, sent, ratio>>
    /\ UNCHANGED <<wsVars, jobVars, runVars>>

\* outcomes of ml_client.compute.get(cpu_compute_target)
GetOutcomes ==
    IF cluster = <<>>
    THEN {"ResourceNotFoundError"} \cup CallFailures
    ELSE {"ok"} \cup CallFailures

\* one execution of the compute cell's code: try get; except Exception: build
\* and begin create.  `after` is the notebook going on when the cell returns.
RunComputeCell(after) ==
    /\ runs' = runs + 1
    /\ \E outcome \in GetOutcomes :
         /\ got' = outcome
         /\ IF outcome = "ok"
            THEN /\ calls' = Append(calls, "compute.get") \o ReuseRequests
                 /\ sent' = sent \o [i \in DOMAIN ReuseRequests |-> NewCluster]
                 /\ pending' = pending \o [i \in DOMAIN ReuseRequests |-> NewCluster]
                 /\ branch' = "reuse"
                 /\ cpu_cluster' = "entity"
                 /\ after
                 /\ UNCHANGED cellError
            ELSE IF Caught(outcome)
            THEN /\ calls' = calls \o <<"compute.get", "compute.begin_create_or_update">>
                 /\ sent' = Append(sent, NewCluster)
                 /\ branch' = "create"
                 /\ \/ /\ pending' = Append(pending, NewCluster)
                       /\ cpu_cluster' = "poller"
                       /\ after
                       /\ UNCHANGED cellError
                    \/ /\ \E exc \in CallFailures :
                            Raise(exc, "compute.begin_create_or_update")
                       /\ UNCHANGED <<pending, cpu_cluster>>
            ELSE /\ calls' = Append(calls, "compute.get")
                 /\ Raise(outcome, "compute.get")
                 /\ UNCHANGED <<branch, cpu_cluster, sent, pending>>
    /\ UNCHANGED <<ratio, cluster, cluster0, jobVars, runVars>>

\* the compute cell, executed in its turn
ComputeCell ==
    /\ nbState = "running"
    /\ nbpc <= Len(Cells)
    /\ NextCell.call = "compute"
    /\ RunComputeCell(Advance)

\* the compute cell executed again by hand, the notebook being where it is
RerunComputeCell ==
    /\ nbState \in {"running", "error"}
    /\ runs \in 1..(MaxRuns - 1)
    /\ RunComputeCell(UNCHANGED <<nbpc, nbState>>)

\* the creation begun by begin_create_or_update ends in the workspace: the
\* cluster takes the configuration sent, or the creation fails
Provision ==
    /\ pending # <<>>
    /\ \/ cluster' = <<Head(pending)>>
       \/ cluster' = cluster
    /\ pending' = Tail(pending)
    /\ UNCHANGED <<nbVars, cluster0, jobVars, runVars>>

\* a last cell that waits for the creations begun before it submits
SubmitCellAfterCreation ==
    /\ nbState = "running"
    /\ nbpc <= Len(Cells)
    /\ NextCell.call = "jobs"
    /\ pending = <<>>
    /\ calls' = Append(calls, "jobs.create_or_update")
    /\ \/ /\ nbState' = "streaming"
          /\ nbpc' = nbpc
          /\ job' = "Running"
          /\ UNCHANGED cellError
       \/ /\ \E exc \in CallFailures : Raise(exc, "jobs.create_or_update")
          /\ UNCHANGED job
    /\ UNCHANGED <<branch, cpu_cluster, got, runs, sent, ratio, wsVars, stepStatus, runVars>>

\* the last cell: jobs.create_or_update, then jobs.stream
SubmitCell ==
    /\ nbState = "running"
    /\ nbpc <= Len(Cells)
    /\ NextCell.call = "jobs"
    /\ calls' = Append(calls, "jobs.create_or_update")
    /\ \/ /\ nbState' = "streaming"
          /\ nbpc' = nbpc
          /\ job' = "Running"
          /\ UNCHANGED cellError
       \/ /\ \E exc \in CallFailures : Raise(exc, "jobs.create_or_update")
          /\ UNCHANGED job
    /\ UNCHANGED <<branch, cpu_cluster, got, runs, sent, ratio, wsVars, stepStatus, runVars>>

\* ml_client.jobs.stream returns when the job has ended, and raises when it
\* ended in failure
StreamEnds ==
    /\ nbState = "streaming"
    /\ job \in {"Completed", "Failed"}
    /\ calls' = Append(calls, "jobs.stream")
    /\ IF job = "Completed"
       THEN /\ nbState' = "done"
            /\ nbpc' = nbpc + 1
            /\ UNCHANGED cellError
       ELSE Raise("JobException", "jobs.stream")
    /\ UNCHANGED <<branch, cpu_cluster, got, runs, sent, ratio, wsVars, jobVars, runVars>>

(***************************************************************************)
(* The pipeline service: it starts a step when what its inputs are bound   *)
(* to is there, and ends the job with its steps.                           *)
(***************************************************************************)
Available(b) == IF b.step = "" THEN TRUE ELSE stepStatus[b.step] = "Completed"

FirstOp(s) == IF s = "data_prep_job" THEN "if_main" ELSE "start_run"

StartStep(s) ==
    /\ job = "Running"
    /\ stepStatus[s] = "NotStarted"
    /\ \A t \in Steps : stepStatus[t] # "Failed"
    /\ \A b \in Bindings(s) : Available(b)
    /\ cluster # <<>>
    /\ stepStatus' = [stepStatus EXCEPT ![s] = "Running"]
    /\ pc' = [pc EXCEPT ![s] = FirstOp(s)]
    /\ IF s = "data_prep_job"
       THEN /\ args_data' \in {"uri_file", "uri_folder"}
            /\ sheet' \in Sheets
       ELSE UNCHANGED <<args_data, sheet>>
    /\ UNCHANGED <<nbVars, wsVars, job, __name__, trace, opened, fs, trVars>>
    /\ UNCHANGED <<credit_df, credit_train_df, credit_test_df>>

\* the script's process has ended: exit code 0, or an uncaught exception
StepEnds(s) ==
    /\ stepStatus[s] = "Running"
    /\ pc[s] \in {"exit0", "raised"}
    /\ stepStatus' = [stepStatus EXCEPT ![s] =
                        IF pc[s] = "exit0" THEN "Completed" ELSE "Failed"]
    /\ UNCHANGED <<nbVars, wsVars, job, runVars>>

JobEnds ==
    /\ job = "Running"
    /\ \A s \in Steps : stepStatus[s] # "Running"
    /\ \/ /\ \A s \in Steps : stepStatus[s] = "Completed"
          /\ job' = "Completed"
       \/ /\ \E s \in Steps : stepStatus[s] = "Failed"
          /\ job' = "Failed"
    /\ UNCHANGED <<nbVars, wsVars, stepStatus, runVars>>

(***************************************************************************)
(* Statements of the scripts.  Each is attempted once; it returns, or it   *)
(* raises and the uncaught exception ends the script.                      *)
(***************************************************************************)
At(s, op) == stepStatus[s] = "Running" /\ pc[s] = op

Returns(s, op, next) ==
    /\ pc' = [pc EXCEPT ![s] = next]
    /\ trace' = [trace EXCEPT ![s] = Append(@, op)]

\* a statement that raised is attempted again
ThrowsAndRetries(s, op) ==
    /\ pc' = pc
    /\ trace' = [trace EXCEPT ![s] = Append(@, op)]

Throws(s, op) ==
    /\ pc' = [pc EXCEPT ![s] = "raised"]
    /\ trace' = [trace EXCEPT ![s] = Append(@, op)]

\* a statement with no effect on the modelled state
Plain(s, op, next) ==
    /\ At(s, op)
    /\ \/ Returns(s, op, next)
       \/ Throws(s, op)
    /\ UNCHANGED <<nbVars, wsVars, jobVars, __name__, opened, fs, dpVars, trVars>>

\* main() called without the guard on __name__
MainGuardAbsent(s, first) ==
    /\ At(s, "if_main")
    /\ pc' = [pc EXCEPT ![s] = first]
    /\ UNCHANGED <<nbVars, wsVars, jobVars, __name__, trace, opened, fs, dpVars, trVars>>

\* if __name__ == "__main__": main()
MainGuard(s, first) ==
    /\ At(s, "if_main")
    /\ pc' = [pc EXCEPT ![s] = IF __name__[s] = "__main__" THEN first ELSE "exit0"]
    /\ UNCHANGED <<nbVars, wsVars, jobVars, __name__, trace, opened, fs, dpVars, trVars>>

\* open(path, "w") and write: the file of that name holds rows
WriteFile(folder, name, rows) ==
    [fs EXCEPT ![folder] =
        { e \in @ : e.name # name } \cup { [name |-> name, rows |-> rows] }]

\* what a write that raises can leave: the first rows only
Truncations(rows) == { SubSeq(rows, 1, k) : k \in 0..(Len(rows) - 1) }

(***************************************************************************)
(* data_prep.py                                                            *)
(***************************************************************************)
DP == "data_prep_job"

DP_if_main == MainGuard(DP, "parse_args")

DP_parse_args == Plain(DP, "parse_args", "start_run")

DP_start_run == Plain(DP, "start_run", "read_excel")

\* the path data_prep.py opens for reading: args.data itself
DP_input_path == <<"data">>

\* credit_df = pd.read_excel(args.data, header=1, index_col=0)
DP_read_excel ==
    /\ At(DP, "read_excel")
    /\ opened' = Append(opened, DP_input_path)
    /\ \/ /\ args_data = "uri_file"
          /\ credit_df' = read_excel(sheet)
          /\ Returns(DP, "read_excel", "log_metric")
       \/ /\ Throws(DP, "read_excel")
          /\ UNCHANGED credit_df
    /\ UNCHANGED <<nbVars, wsVars, jobVars, __name__, fs, trVars>>
    /\ UNCHANGED <<args_data, sheet, credit_train_df, credit_test_df>>

\* mlflow.log_metric("num_samples", ...); mlflow.log_metric("num_features", ...)
DP_log_metric == Plain(DP, "log_metric", "train_test_split")

\* credit_train_df, credit_test_df = train_test_split(credit_df, test_size=...)
DP_train_test_split ==
    /\ At(DP, "train_test_split")
    /\ \/ /\ ~SplitRaises(ratio, Len(credit_df))
          /\ \E perm \in Perms(Len(credit_df)) :
               /\ credit_train_df' = TrainPart(credit_df, ratio, perm)
               /\ credit_test_df' = TestPart(credit_df, ratio, perm)
          /\ Returns(DP, "train_test_split", "to_csv_train")
       \/ /\ SplitRaises(ratio, Len(credit_df))
          /\ Throws(DP, "train_test_split")
          /\ UNCHANGED <<credit_train_df, credit_test_df>>
    /\ UNCHANGED <<nbVars, wsVars, jobVars, __name__, opened, fs, trVars>>
    /\ UNCHANGED <<args_data, sheet, credit_df>>

\* a write that removes what the script wrote when it fails
WriteCsvCleansUp(op, next, folder, df) ==
    /\ At(DP, op)
    /\ \/ /\ fs' = WriteFile(folder, "data.csv", to_csv(df))
          /\ Returns(DP, op, next)
       \/ /\ fs' = [d \in Folders |-> {}]
          /\ Throws(DP, op)
    /\ UNCHANGED <<nbVars, wsVars, jobVars, __name__, opened, dpVars, trVars>>

\* df.to_csv(os.path.join(folder, "data.csv"), index=False)
WriteCsv(op, next, folder, df) ==
    /\ At(DP, op)
    /\ \/ /\ fs' = WriteFile(folder, "data.csv", to_csv(df))
          /\ Returns(DP, op, next)
       \/ /\ \/ fs' = fs
             \/ \E part \in Truncations(to_csv(df)) :
                  fs' = WriteFile(folder, "data.csv", part)
          /\ Throws(DP, op)
    /\ UNCHANGED <<nbVars, wsVars, jobVars, __name__, opened, dpVars, trVars>>

DP_to_csv_train == WriteCsv("to_csv_train", "to_csv_test", "train_data", credit_train_df)

\* the second write sent to the first write's folder
DP_to_csv_test_swapped == WriteCsv("to_csv_test", "end_run", "train_data", credit_test_df)

DP_to_csv_test == WriteCsv("to_csv_test", "end_run", "test_data", credit_test_df)

DP_end_run == Plain(DP, "end_run", "exit0")

(***************************************************************************)
(* train.py                                                                *)
(***************************************************************************)
TR == "train_job"

\* module level, before main(): start_run, autolog, makedirs("./outputs")
TR_start_run == Plain(TR, "start_run", "autolog")

TR_autolog == Plain(TR, "autolog", "makedirs")

TR_makedirs == Plain(TR, "makedirs", "if_main")

TR_if_main == MainGuard(TR, "parse_args")

TR_parse_args == Plain(TR, "parse_args", "read_train")

\* a read that takes an empty folder for an empty table and goes on
ReadCsvSkipsEmpty(op, next, folder) ==
    /\ At(TR, op)
    /\ \/ /\ \E e \in fs[folder] :
               /\ e.name \in select_first_file(fs[folder])
               /\ opened' = Append(opened, Join(folder, e.name))
               /\ IF folder = "train_data"
                  THEN y_train' = e.rows /\ y_test' = y_test
                  ELSE y_test' = e.rows /\ y_train' = y_train
       \/ /\ select_first_file(fs[folder]) = {}
          /\ UNCHANGED <<opened, y_train, y_test>>
    /\ Returns(TR, op, next)
    /\ UNCHANGED <<nbVars, wsVars, jobVars, __name__, fs, dpVars, clf, registered>>

\* df = pd.read_csv(select_first_file(folder)); y = df.pop(label)
ReadCsv(op, next, folder) ==
    /\ At(TR, op)
    /\ \/ /\ \E e \in fs[folder] :
               /\ e.name \in select_first_file(fs[folder])
               /\ opened' = Append(opened, Join(folder, e.name))
               /\ \/ /\ IF folder = "train_data"
                        THEN y_train' = e.rows /\ y_test' = y_test
                        ELSE y_test' = e.rows /\ y_train' = y_train
                     /\ Returns(TR, op, next)
                  \/ /\ Throws(TR, op)
                     /\ UNCHANGED <<y_train, y_test>>
       \/ /\ select_first_file(fs[folder]) = {}
          /\ Throws(TR, op)
          /\ UNCHANGED <<opened, y_train, y_test>>
    /\ UNCHANGED <<nbVars, wsVars, jobVars, __name__, fs, dpVars, clf, registered>>

TR_read_train == ReadCsv("read_train", "read_test", "train_data")

TR_read_test == ReadCsv("read_test", "fit", "test_data")

\* GradientBoostingClassifier.fit raises ValueError on fewer than 2 classes
FitRaises(y) == Cardinality(Range(y)) < 2

\* a fit whose exception is swallowed: the script goes on without a model
TR_fit_swallowed ==
    /\ At(TR, "fit")
    /\ IF FitRaises(y_train)
       THEN clf' = clf
       ELSE clf' = [fitted |-> TRUE, on |-> y_train]
    /\ Returns(TR, "fit", "predict")
    /\ UNCHANGED <<nbVars, wsVars, jobVars, __name__, opened, fs, dpVars>>
    /\ UNCHANGED <<y_train, y_test, registered>>

\* clf = GradientBoostingClassifier(...); clf.fit(X_train, y_train)
TR_fit ==
    /\ At(TR, "fit")
    /\ \/ /\ ~FitRaises(y_train)
          /\ clf' = [fitted |-> TRUE, on |-> y_train]
          /\ Returns(TR, "fit", "predict")
       \/ /\ Throws(TR, "fit")
          /\ UNCHANGED clf
    /\ UNCHANGED <<nbVars, wsVars, jobVars, __name__, opened, fs, dpVars>>
    /\ UNCHANGED <<y_train, y_test, registered>>

\* y_pred = clf.predict(X_test); print(classification_report(y_test, y_pred))
TR_predict == Plain(TR, "predict", "log_model")

\* mlflow.sklearn.log_model(sk_model=clf, registered_model_name=...)
TR_log_model ==
    /\ At(TR, "log_model")
    /\ \/ /\ registered' = registered + 1
          /\ Returns(TR, "log_model", "save_model")
       \/ /\ Throws(TR, "log_model")
          /\ UNCHANGED registered
    /\ UNCHANGED <<nbVars, wsVars, jobVars, __name__, opened, fs, dpVars>>
    /\ UNCHANGED <<y_train, y_test, clf>>

\* mlflow.sklearn.save_model(sk_model=clf, path=join(args.model, "trained_model"))
TR_save_model ==
    /\ At(TR, "save_model")
    /\ \/ /\ fs' = WriteFile("model", "trained_model", clf.on)
          /\ Returns(TR, "save_model", "end_run")
       \/ /\ Throws(TR, "save_model")
          /\ UNCHANGED fs
    /\ UNCHANGED <<nbVars, wsVars, jobVars, __name__, opened, dpVars, trVars>>

\* main() returning without mlflow.end_run()
TR_end_run_forgotten ==
    /\ At(TR, "end_run")
    /\ pc' = [pc EXCEPT ![TR] = "exit0"]
    /\ UNCHANGED <<nbVars, wsVars, jobVars, __name__, trace, opened, fs, dpVars, trVars>>

TR_end_run == Plain(TR, "end_run", "exit0")

(***************************************************************************)
(* The specification.                                                      *)
(***************************************************************************)
Init == NbInit /\ WsInit /\ RunInit

Next ==
    \/ LocalCell
    \/ InstantiateCell
    \/ RemoteCell
    \/ ComputeCell
    \/ Provision
    \/ SubmitCell
    \/ StreamEnds
    \/ \E s \in Steps : StartStep(s)
    \/ \E s \in Steps : StepEnds(s)
    \/ JobEnds
    \/ DP_if_main
    \/ DP_parse_args
    \/ DP_start_run
    \/ DP_read_excel
    \/ DP_log_metric
    \/ DP_train_test_split
    \/ DP_to_csv_train
    \/ DP_to_csv_test
    \/ DP_end_run
    \/ TR_start_run
    \/ TR_autolog
    \/ TR_makedirs
    \/ TR_if_main
    \/ TR_parse_args
    \/ TR_read_train
    \/ TR_read_test
    \/ TR_fit
    \/ TR_predict
    \/ TR_log_model
    \/ TR_save_model
    \/ TR_end_run

Spec == Init /\ [][Next]_vars

(***************************************************************************)
(* One script alone: started from a command line as a program, or          *)
(* imported as a module, with whatever its arguments name.                 *)
(***************************************************************************)
ModuleName(s) == IF s = "data_prep_job" THEN "data_prep" ELSE "train"

\* what a folder given to train.py can hold
FolderContents ==
    LET files == { [name |-> n, rows |-> r] :
                     n \in {"data.csv", "part-0.csv"}, r \in {<<0, 1>>, <<1, 1>>} }
    IN  { c \in SUBSET files : \A e, f \in c : e.name = f.name => e = f }

InitScripts ==
    /\ nbpc = 1
    /\ nbState = "running"
    /\ calls = <<>>
    /\ cellError = NoError
    /\ branch = "none"
    /\ cpu_cluster = "unset"
    /\ got = ""
    /\ runs = 0
    /\ sent = <<>>
    /\ ratio \in Ratios
    /\ cluster = <<>>
    /\ cluster0 = <<>>
    /\ pending = <<>>
    /\ job = "NotSubmitted"
    /\ trace = [s \in Steps |-> <<>>]
    /\ opened = <<>>
    /\ credit_df = <<>>
    /\ credit_train_df = <<>>
    /\ credit_test_df = <<>>
    /\ y_train = <<>>
    /\ y_test = <<>>
    /\ clf = [fitted |-> FALSE, on |-> <<>>]
    /\ registered = 0
    /\ \E s \in Steps :
         /\ stepStatus = [t \in Steps |-> IF t = s THEN "Running" ELSE "NotStarted"]
         /\ pc = [t \in Steps |-> IF t = s THEN FirstOp(s) ELSE "NotStarted"]
         /\ \E n \in {"__main__", ModuleName(s)} :
              __name__ = [t \in Steps |-> IF t = s THEN n ELSE "__main__"]
         /\ IF s = "data_prep_job"
            THEN /\ args_data \in {"uri_file", "uri_folder"}
                 /\ sheet \in Sheets
                 /\ fs = [d \in Folders |-> {}]
            ELSE /\ args_data = "uri_file"
                 /\ sheet = <<NoDataRow, NoDataRow>>
                 /\ \E tr \in FolderContents, te \in FolderContents :
                      fs = [d \in Folders |->
                              IF d = "train_data" THEN tr
                              ELSE IF d = "test_data" THEN te ELSE {}]

NextScripts ==
    \/ DP_if_main
    \/ DP_parse_args
    \/ DP_start_run
    \/ DP_read_excel
    \/ DP_log_metric
    \/ DP_train_test_split
    \/ DP_to_csv_train
    \/ DP_to_csv_test
    \/ DP_end_run
    \/ TR_start_run
    \/ TR_autolog
    \/ TR_makedirs
    \/ TR_if_main
    \/ TR_parse_args
    \/ TR_read_train
    \/ TR_read_test
    \/ TR_fit
    \/ TR_predict
    \/ TR_log_model
    \/ TR_save_model
    \/ TR_end_run

SpecScripts == InitScripts /\ [][NextScripts]_vars

(***************************************************************************)
(* The compute cell alone: executed in its turn and then again by hand,    *)
(* while the workspace carries out the creations begun.                    *)
(***************************************************************************)
InitCompute ==
    /\ nbpc = CHOOSE i \in DOMAIN Cells : Cells[i].call = "compute"
    /\ nbState = "running"
    /\ calls = <<"data.create_or_update">>
    /\ cellError = NoError
    /\ branch = "none"
    /\ cpu_cluster = "unset"
    /\ got = ""
    /\ runs = 0
    /\ sent = <<>>
    /\ ratio = [num |-> 1, den |-> 4]
    /\ WsInit
    /\ RunInit

NextCompute ==
    \/ ComputeCell
    \/ RerunComputeCell
    \/ Provision

SpecCompute == InitCompute /\ [][NextCompute]_vars

(***************************************************************************)
(* Properties.                                                             *)
(***************************************************************************)
InRange(seq, x) == \E i \in DOMAIN seq : seq[i] = x

GetRaised == got \notin {"", "ok"}

\* C1, as stated: whatever exception compute.get raises, the compute cell
\* builds the AmlCompute named cpu-cluster and calls begin_create_or_update
\* with it, and the exception of get does not leave the cell.
C1_AnyExceptionCreates ==
    GetRaised =>
        /\ branch = "create"
        /\ InRange(calls, "compute.begin_create_or_update")
        /\ sent = <<NewCluster>>
        /\ cellError.from # "compute.get"

\* C1, amended: when compute.get raises an instance of Exception (cluster not
\* found, authentication failure, network failure), the compute cell builds
\* the AmlCompute named cpu-cluster and calls begin_create_or_update with it,
\* and the exception of get does not leave the cell; an exception that is no
\* instance of Exception (KeyboardInterrupt) leaves the cell and nothing is
\* created.
C1_ExceptionCreates ==
    /\ got \in {"ResourceNotFoundError", "ClientAuthenticationError",
                "ServiceRequestError"} =>
          /\ branch = "create"
          /\ InRange(calls, "compute.begin_create_or_update")
          /\ sent = <<NewCluster>>
          /\ sent[1].name = "cpu-cluster"
          /\ cellError.from # "compute.get"
    /\ got = "KeyboardInterrupt" =>
          /\ cellError = [cell |-> "cpu_cluster", exc |-> "KeyboardInterrupt",
                          from |-> "compute.get"]
          /\ sent = <<>>
          /\ branch = "none"

\* get raised an authentication failure on a workspace that holds the
\* cluster, and the creation was begun
C1_Witness ==
    /\ got = "ClientAuthenticationError"
    /\ cluster0 # <<>>
    /\ branch = "create"
    /\ sent = <<NewCluster>>
    /\ nbpc > 4

\* C2: when compute.get returns the cluster, the compute cell sends no create
\* or update (no begin_create_or_update is called, none is pending), and the
\* cluster keeps the configuration it had, whatever that is.
C2_ReuseLeavesCluster ==
    got = "ok" =>
        /\ branch = "reuse"
        /\ ~InRange(calls, "compute.begin_create_or_update")
        /\ sent = <<>>
        /\ pending = <<>>
        /\ cluster = cluster0

\* the notebook ran to its end reusing a cluster configured unlike the
\* tutorial's
C2_Witness ==
    /\ got = "ok"
    /\ cluster0 # <<NewCluster>>
    /\ cluster = cluster0
    /\ nbState = "done"

\* C6: building the MLClient and the Data object calls nothing in the
\* workspace; run in cell order, the notebook's first call to the workspace
\* is data.create_or_update, made once, and every other call comes after it.
C6_FirstCallRegistersData ==
    /\ (nbState = "running"
        /\ NextCell.name \in {"ml_client", "credit_data", "update-credit_data"})
          => calls = <<>>
    /\ calls # <<>> => calls[1] = "data.create_or_update"
    /\ \A i \in 2..Len(calls) : calls[i] # "data.create_or_update"

\* the job was submitted after the data, the cluster and the rest
C6_Witness ==
    /\ Len(calls) >= 2
    /\ calls[1] = "data.create_or_update"
    /\ calls[2] = "compute.get"
    /\ InRange(calls, "environments.create_or_update")
    /\ InRange(calls, "jobs.create_or_update")

Produced(folder, df) == [name |-> "data.csv", rows |-> to_csv(df)] \in fs[folder]

\* C3: in a run of the pipeline the training step is started only when the
\* data preparation step has completed with data.csv written to train_data
\* and to test_data; the two steps are never running together, and when the
\* data preparation fails the training step is not started.
C3_TrainAfterDataPrep ==
    /\ stepStatus[TR] # "NotStarted" =>
          /\ stepStatus[DP] = "Completed"
          /\ pc[DP] = "exit0"
          /\ Produced("train_data", credit_train_df)
          /\ Produced("test_data", credit_test_df)
    /\ ~(stepStatus[DP] = "Running" /\ stepStatus[TR] = "Running")
    /\ (stepStatus[DP] = "Failed" \/ pc[DP] = "raised") =>
          /\ stepStatus[TR] = "NotStarted"
          /\ trace[TR] = <<>>

\* the training step ran to its end on what the data preparation wrote
C3_Witness ==
    /\ stepStatus[DP] = "Completed"
    /\ stepStatus[TR] = "Completed"
    /\ Len(y_train) = 2

Last(seq) == seq[Len(seq)]

\* op was attempted by the script of step s / was attempted and returned
Attempted(s, op) == InRange(trace[s], op)
Returned(s, op) ==
    \E i \in DOMAIN trace[s] :
        trace[s][i] = op /\ ~(pc[s] = "raised" /\ i = Len(trace[s]))

\* C5: train.py registers the model (log_model) and saves it to the model
\* folder (save_model) only after fit has returned; a pipeline job that
\* completed has registered a model and saved it; a run of train.py that
\* raised while loading the data or in fit has registered and saved none.
C5_RegisterAfterFit ==
    /\ (registered > 0 \/ fs["model"] # {}
        \/ Attempted(TR, "log_model") \/ Attempted(TR, "save_model")) =>
          /\ clf.fitted
          /\ Returned(TR, "fit")
    /\ job = "Completed" =>
          /\ registered = 1
          /\ fs["model"] = {[name |-> "trained_model", rows |-> y_train]}
    /\ (pc[TR] = "raised" /\ Last(trace[TR]) \in {"read_train", "read_test", "fit"}) =>
          /\ registered = 0
          /\ fs["model"] = {}

\* the job completed, with the model registered and saved
C5_Witness ==
    /\ job = "Completed"
    /\ registered = 1
    /\ fs["model"] # {}

\* the data rows of the sheet, and the rows of data.csv in a folder
InputIds == { sheet[i].id : i \in DOMAIN sheet } \ {0}
InputLabels(v) == Cardinality({ i \in DOMAIN sheet : sheet[i].id # 0 /\ sheet[i].y = v })
Written(folder) ==
    IF \E e \in fs[folder] : e.name = "data.csv"
    THEN (CHOOSE e \in fs[folder] : e.name = "data.csv").rows
    ELSE <<>>
Count(seq, v) == Cardinality({ i \in DOMAIN seq : seq[i] = v })
Ids(df) == { df[i].id : i \in DOMAIN df }

\* the rows of the two files are the input rows, each in exactly one file
Partitioned ==
    /\ Len(Written("train_data")) + Len(Written("test_data")) = Cardinality(InputIds)
    /\ \A v \in {0, 1} :
         Count(Written("train_data"), v) + Count(Written("test_data"), v) = InputLabels(v)
    /\ Len(credit_train_df) = Len(Written("train_data"))
    /\ Len(credit_test_df) = Len(Written("test_data"))
    /\ Ids(credit_train_df) \cap Ids(credit_test_df) = {}
    /\ Ids(credit_train_df) \cup Ids(credit_test_df) = InputIds
    /\ Cardinality(Ids(credit_train_df)) = Len(credit_train_df)
    /\ Cardinality(Ids(credit_test_df)) = Len(credit_test_df)

RatioInside == 0 < ratio.num /\ ratio.num < ratio.den

\* C4, as stated: for every input table and every test_train_ratio strictly
\* between 0 and 1, when data_prep.py has ended (none of its reads and writes
\* having failed) the rows of the train CSV and of the test CSV partition the
\* input rows, so train rows + test rows = input rows.
C4_EveryTablePartitioned ==
    (/\ RatioInside
     /\ Returned(DP, "read_excel")
     /\ \/ pc[DP] = "exit0"
        \/ pc[DP] = "raised" /\ Last(trace[DP]) = "train_test_split")
        => Partitioned

\* C4, amended: for every input table and every test_train_ratio strictly
\* between 0 and 1 that leave at least one train row (ceil(ratio * rows) <
\* rows), train_test_split returns and, once both CSVs are written, their
\* rows partition the input rows (each input row in exactly one file, train
\* rows + test rows = input rows); for the other tables train_test_split
\* raises and neither file is written.
C4_SplitPartitions ==
    /\ (RatioInside /\ Returned(DP, "to_csv_test")) => Partitioned
    /\ (RatioInside /\ Attempted(DP, "train_test_split")) =>
          IF ratio.num * Cardinality(InputIds) <= ratio.den * (Cardinality(InputIds) - 1)
          THEN Returned(DP, "train_test_split")
          ELSE /\ pc[DP] = "raised"
               /\ fs["train_data"] = {}
               /\ fs["test_data"] = {}

\* three rows split at 0.5: two test rows, one train row, both files written
C4_Witness ==
    /\ Returned(DP, "to_csv_test")
    /\ ratio = [num |-> 2, den |-> 4]
    /\ Cardinality(InputIds) = 3
    /\ Len(Written("test_data")) = 2
    /\ Len(Written("train_data")) = 1

\* C7: data_prep.py reads its input through select_first_file: the path it
\* opens is that of a file inside the mounted folder args.data, never
\* args.data itself.
C7_ReadsFileInsideFolder ==
    \A i \in DOMAIN opened :
        opened[i][1] = "data" => Len(opened[i]) = 2


DataCsv(df) == [name |-> "data.csv", rows |-> to_csv(df)]

\* C11: when data_prep.py has completed, train_data holds exactly one file,
\* data.csv with the train rows, test_data holds exactly one file, data.csv
\* with the test rows, and nothing else was written; so select_first_file has
\* one file to select in either folder, and train.py reads the train rows
\* from train_data/data.csv and the test rows from test_data/data.csv.
C11_OneFileEach ==
    /\ pc[DP] = "exit0" =>
          /\ fs["train_data"] = {DataCsv(credit_train_df)}
          /\ fs["test_data"] = {DataCsv(credit_test_df)}
          /\ select_first_file(fs["train_data"]) = {"data.csv"}
          /\ select_first_file(fs["test_data"]) = {"data.csv"}
          /\ stepStatus[TR] = "NotStarted" => fs["model"] = {}
    /\ Returned(TR, "read_train") =>
          /\ opened[2] = Join("train_data", "data.csv")
          /\ y_train = to_csv(credit_train_df)
    /\ Returned(TR, "read_test") =>
          /\ opened[3] = Join("test_data", "data.csv")
          /\ Len(opened) = 3
          /\ y_test = to_csv(credit_test_df)

C11_Witness ==
    /\ Returned(TR, "read_test")
    /\ Len(y_train) = 2
    /\ y_test = <<1>>
    /\ y_train # <<1, 1>>


\* the folder train.py reads with each of its two reads
ReadFolder(op) == IF op = "read_train" THEN "train_data" ELSE "test_data"

\* C12: select_first_file(path) returns the path, inside the folder, of an
\* entry of the folder's listing, which is the folder's only file when it
\* holds exactly one; on an empty folder it returns no path but raises, the
\* read that called it ends train.py, and train.py has fitted, registered
\* and saved nothing.
C12_SelectFirstFile ==
    /\ \A c \in FolderContents :
         /\ select_first_file(c) \subseteq { e.name : e \in c }
         /\ c = {} <=> select_first_file(c) = {}
         /\ Cardinality(c) = 1 => Cardinality(select_first_file(c)) = 1
    /\ stepStatus[TR] = "Running" =>
         \A i \in DOMAIN opened :
            /\ opened[i][1] \in {"train_data", "test_data"}
            /\ \E e \in fs[opened[i][1]] : opened[i] = Join(opened[i][1], e.name)
    /\ \A op \in {"read_train", "read_test"} :
         (fs[ReadFolder(op)] = {} /\ Attempted(TR, op)) =>
            /\ pc[TR] = "raised"
            /\ Last(trace[TR]) = op
            /\ ~InRange(opened, <<ReadFolder(op), "data.csv">>)
            /\ ~Attempted(TR, "fit")
            /\ ~Attempted(TR, "log_model")
            /\ ~Attempted(TR, "save_model")
            /\ ~clf.fitted
            /\ registered = 0
            /\ fs["model"] = {}

C12_Witness ==
    /\ fs["train_data"] # {}
    /\ fs["test_data"] = {}
    /\ Returned(TR, "read_train")
    /\ Attempted(TR, "read_test")
    /\ pc[TR] = "raised"


\* the operations of each script in the order of its text
StatementOrder(s) ==
    IF s = DP
    THEN <<"parse_args", "start_run", "read_excel", "log_metric",
           "train_test_split", "to_csv_train", "to_csv_test", "end_run">>
    ELSE <<"start_run", "autolog", "makedirs", "parse_args", "read_train",
           "read_test", "fit", "predict", "log_model", "save_model", "end_run">>

IsPrefix(p, seq) == Len(p) <= Len(seq) /\ p = SubSeq(seq, 1, Len(p))

\* C13: each script attempts its operations in the order of its text, each at
\* most once in an execution (no loop, no retry); the first operation that
\* raises is the last one attempted: once a script has raised it attempts
\* nothing more and changes nothing more.
C13_StraightLine ==
    /\ [](\A s \in Steps : IsPrefix(trace[s], StatementOrder(s)))
    /\ [][\A s \in Steps :
            pc[s] = "raised" =>
               /\ pc'[s] = "raised"
               /\ trace'[s] = trace[s]
               /\ UNCHANGED <<opened, fs, dpVars, trVars>>]_vars

C13_Witness ==
    /\ stepStatus[DP] = "Completed"
    /\ trace[DP] = StatementOrder(DP)
    /\ pc[TR] = "raised"
    /\ Last(trace[TR]) = "log_model"
    /\ job = "Failed"


\* the statements of train.py between its imports and def main()
ModuleLevel == <<"start_run", "autolog", "makedirs">>

\* C14, as stated: in both scripts every effect happens inside main(), which
\* runs only when the script is executed as a program, so a script that is
\* not executed as a program has attempted nothing.
C14_AllEffectsInMain ==
    \A s \in Steps : __name__[s] # "__main__" => trace[s] = <<>>

\* C14, amended: data_prep.py has every effect inside main(); train.py starts
\* the mlflow run, enables autologging and creates ./outputs at module level,
\* before main() and also when it is not executed as a program, and has its
\* other effects inside main(); in both scripts main() runs only when the
\* script is executed as a program.
C14_EffectsInMainButModuleLevel ==
    /\ __name__[DP] # "__main__" =>
          /\ trace[DP] = <<>>
          /\ opened = <<>>
          /\ fs = [d \in Folders |-> {}]
    /\ __name__[TR] # "__main__" =>
          /\ IsPrefix(trace[TR], ModuleLevel)
          /\ pc[TR] = "exit0" => trace[TR] = ModuleLevel
          /\ opened = <<>>
          /\ ~clf.fitted
          /\ registered = 0
          /\ fs["model"] = {}
    /\ \A s \in Steps : Attempted(s, "parse_args") => __name__[s] = "__main__"
    /\ Attempted(TR, "parse_args") =>
          SubSeq(trace[TR], 1, Len(ModuleLevel)) = ModuleLevel

C14_Witness ==
    /\ __name__[TR] = "train"
    /\ pc[TR] = "exit0"
    /\ trace[TR] = ModuleLevel


SecondWriteFailed == pc[DP] = "raised" /\ Last(trace[DP]) = "to_csv_test"

\* C15, as stated: the train CSV is written before the test CSV, and when
\* the second write fails train_data holds data.csv and test_data holds no
\* file, from then on.
C15_SecondWriteLeavesNone ==
    SecondWriteFailed =>
        /\ fs["train_data"] = {DataCsv(credit_train_df)}
        /\ fs["test_data"] = {}

\* C15, amended: the train CSV is written before the test CSV is attempted;
\* when the second write fails, train_data holds the whole data.csv and
\* test_data holds no file or a data.csv with only the first rows of the
\* test table, and it stays so: nothing removes the partial output.
C15_PartialOutputStays ==
    /\ (Attempted(DP, "to_csv_test") \/ fs["test_data"] # {}) =>
          /\ Returned(DP, "to_csv_train")
          /\ fs["train_data"] = {DataCsv(credit_train_df)}
    /\ SecondWriteFailed =>
          /\ fs["train_data"] = {DataCsv(credit_train_df)}
          /\ \/ fs["test_data"] = {}
             \/ \E part \in Truncations(to_csv(credit_test_df)) :
                   fs["test_data"] = {[name |-> "data.csv", rows |-> part]}
          /\ fs["test_data"] # {DataCsv(credit_test_df)}

C15_Witness ==
    /\ SecondWriteFailed
    /\ job = "Failed"
    /\ Len(credit_test_df) = 2
    /\ \E e \in fs["test_data"] : Len(e.rows) = 1
    /\ fs["train_data"] # {}


\* the operations that log metrics or models to the mlflow run
LoggingOps == {"log_metric", "fit", "log_model"}

Pos(seq, x) == CHOOSE i \in DOMAIN seq : seq[i] = x

\* the script started an mlflow run and has not ended it
RunOpen(s) == Returned(s, "start_run") /\ ~Returned(s, "end_run")

CellStep == LocalCell \/ InstantiateCell \/ RemoteCell \/ ComputeCell \/ SubmitCell

\* C17: the create branch of the compute cell only begins the creation: the
\* cell returns the poller with the creation pending and the workspace's
\* cluster as it was; whatever has become of the creation (in progress,
\* done, failed) the next cell of the notebook can execute, the submission of
\* the job included, and the notebook makes no call about the cluster after
\* begin_create_or_update.
C17_CreateDoesNotWait ==
    /\ (nbState = "running" /\ nbpc <= Len(Cells)) => ENABLED CellStep
    /\ (branch = "create" /\ cpu_cluster = "poller") =>
          /\ sent = <<NewCluster>>
          /\ pending = sent => cluster = cluster0
    /\ \A i, j \in DOMAIN calls :
          (calls[i] = "compute.begin_create_or_update" /\ i < j) =>
             calls[j] \notin {"compute.get", "compute.begin_create_or_update"}

C17_Witness ==
    /\ branch = "create"
    /\ cpu_cluster = "poller"
    /\ pending = <<NewCluster>>
    /\ cluster = <<>>
    /\ job = "Running"
    /\ Last(calls) = "jobs.create_or_update"


\* call a was made, and before call b
CalledBefore(a, b) ==
    \E i, j \in DOMAIN calls : i < j /\ calls[i] = a /\ calls[j] = b

\* the cell of that name has been executed and has returned
Executed(name) ==
    \E i \in DOMAIN Cells : Cells[i].name = name /\ i < nbpc

\* C18: with the cells run in order, when the job is submitted the data
\* asset, the environment and both components have been registered and the
\* cluster exists or its creation has been requested; the environment was
\* registered before the data preparation component naming it was built,
\* both components before the pipeline function was defined; the job is
\* submitted once, and no call but jobs.stream follows the submission.
C18_ReferencedBeforeSubmit ==
    /\ Executed("data_prep_component") =>
          CalledBefore("data.create_or_update", "environments.create_or_update")
    /\ InRange(calls, "create_or_update(data_prep_component)") =>
          CalledBefore("environments.create_or_update",
                       "create_or_update(data_prep_component)")
    /\ Executed("pipeline") =>
          CalledBefore("create_or_update(data_prep_component)",
                       "create_or_update(train_component)")
    /\ InRange(calls, "jobs.create_or_update") =>
          /\ \A c \in {"data.create_or_update", "compute.get",
                       "environments.create_or_update",
                       "create_or_update(data_prep_component)",
                       "create_or_update(train_component)"} :
                CalledBefore(c, "jobs.create_or_update")
          /\ \/ got = "ok" /\ cluster0 # <<>> /\ sent = <<>>
             \/ /\ CalledBefore("compute.begin_create_or_update",
                                "jobs.create_or_update")
                /\ sent = <<NewCluster>>
                /\ cpu_cluster = "poller"
          /\ Count(calls, "jobs.create_or_update") = 1
          /\ \A i, j \in DOMAIN calls :
                (calls[i] = "jobs.create_or_update" /\ i < j) =>
                   calls[j] = "jobs.stream"

C18_Witness ==
    /\ nbState = "done"
    /\ job = "Completed"
    /\ branch = "create"
    /\ Last(calls) = "jobs.stream"
    /\ Len(calls) = 8


\* the compute cell is executed in this step
CellRuns == runs' = runs + 1

\* a creation the cell started has completed: the cluster, which was not
\* there before, is there as the cell asked for it, and no creation is under way
CreationCompleted ==
    /\ cluster0 = <<>>
    /\ sent # <<>>
    /\ pending = <<>>
    /\ cluster = <<NewCluster>>

\* C19, as stated: an execution of the compute cell after a creation it
\* started has completed issues no creation request.
C19_RerunNeverCreates ==
    [][(CellRuns /\ CreationCompleted) => sent' = sent]_vars

\* C19, amended: an execution of the compute cell in which compute.get
\* returns the cluster takes the reuse branch: it issues no request and
\* leaves the cluster and the creations under way as they are; an execution
\* in which compute.get raises an Exception issues one more creation request
\* with the tutorial's configuration, also when the cluster exists; so the
\* executions of the cell issue at most one request each.
C19_RerunReusesWhenGetReturns ==
    /\ [][(CellRuns /\ got' = "ok") =>
             /\ cluster # <<>>
             /\ branch' = "reuse"
             /\ sent' = sent
             /\ pending' = pending
             /\ cluster' = cluster]_vars
    /\ [][(CellRuns /\ got' # "ok") =>
             IF Caught(got')
             THEN sent' = Append(sent, NewCluster)
             ELSE sent' = sent /\ pending' = pending]_vars
    /\ [](Len(sent) <= runs)

C19_Witness ==
    /\ cluster0 = <<>>
    /\ CreationCompleted
    /\ runs = 2
    /\ got = "ok"
    /\ branch = "reuse"
    /\ sent = <<NewCluster>>

=============================================================================
